---------------------------- MODULE Spec2Model ----------------------------
(***************************************************************************)
(* Trace orchestration of src-tauri/src/main.rs: the running_traces        *)
(* registry, run_trace / stop_trace, the spawned session task              *)
(* (execute_trace_with_cancel under the outer select), and the pure        *)
(* helpers they call (is_valid_target, prepare_trace_command,              *)
(* parse_traceroute_line, geo_lookup_inner).                               *)
(*                                                                         *)
(* A Rust string is a sequence of one-character strings: <<"a", ".", "b">> *)
(* is "a.b".  A Rust Option is a sequence of length 0 (None) or 1 (Some).  *)
(***************************************************************************)
EXTENDS Integers, Sequences, FiniteSets, TLC

None == <<>>

Some(x) == <<x>>

IsSome(opt) == Len(opt) = 1

Unwrap(opt) == opt[1]

(***************************************************************************)
(* Characters and string helpers                                           *)
(***************************************************************************)
Digits == {"0", "1", "2", "3", "4", "5", "6", "7", "8", "9"}

LowerLetters ==
    {"a", "b", "c", "d", "e", "f", "g", "h", "i", "j", "k", "l", "m",
     "n", "o", "p", "q", "r", "s", "t", "u", "v", "w", "x", "y", "z"}

UpperLetters ==
    {"A", "B", "C", "D", "E", "F", "G", "H", "I", "J", "K", "L", "M",
     "N", "O", "P", "Q", "R", "S", "T", "U", "V", "W", "X", "Y", "Z"}

HexLetters == {"a", "b", "c", "d", "e", "f", "A", "B", "C", "D", "E", "F"}

\* char::is_ascii_alphanumeric
IsAsciiAlphanumeric(c) == c \in Digits \cup LowerLetters \cup UpperLetters

\* str::contains(char)
ContainsChar(str, c) == \E i \in 1..Len(str) : str[i] = c

\* str::starts_with(&str)
StartsWith(str, pre) ==
    /\ Len(pre) <= Len(str)
    /\ \A i \in 1..Len(pre) : str[i] = pre[i]

\* str::ends_with(&str)
EndsWith(str, suf) ==
    /\ Len(suf) <= Len(str)
    /\ \A i \in 1..Len(suf) : str[Len(str) - Len(suf) + i] = suf[i]

\* str::contains(&str)
ContainsStr(str, pat) ==
    \E k \in 0..(Len(str) - Len(pat)) :
        \A i \in 1..Len(pat) : str[k + i] = pat[i]

\* The position of the k-th occurrence of the character sep in str; 0 for
\* k = 0 and Len(str) + 1 past the last occurrence.
SepAt(str, sep, k) ==
    LET at == {i \in 1..Len(str) : str[i] = sep}
    IN  IF k = 0 THEN 0
        ELSE IF k > Cardinality(at) THEN Len(str) + 1
        ELSE CHOOSE i \in at : Cardinality({j \in at : j <= i}) = k

\* str::split(sep): the pieces between occurrences of the character sep
Split(str, sep) ==
    LET n == Cardinality({i \in 1..Len(str) : str[i] = sep}) + 1
    IN  [k \in 1..n |->
            SubSeq(str, SepAt(str, sep, k - 1) + 1, SepAt(str, sep, k) - 1)]

DigitVal(c) ==
    CASE c = "0" -> 0 [] c = "1" -> 1 [] c = "2" -> 2 [] c = "3" -> 3
      [] c = "4" -> 4 [] c = "5" -> 5 [] c = "6" -> 6 [] c = "7" -> 7
      [] c = "8" -> 8 [] c = "9" -> 9

RECURSIVE DecValue(_)
DecValue(str) ==
    IF str = <<>> THEN 0
    ELSE 10 * DecValue(SubSeq(str, 1, Len(str) - 1)) + DigitVal(str[Len(str)])

AllDigits(str) == \A i \in 1..Len(str) : str[i] \in Digits

(***************************************************************************)
(* is_valid_target                                                         *)
(***************************************************************************)
\* The characters is_valid_target rejects outright.
\* The grave accent (U+0060) opens a quotation inside a TLA+ string and cannot
\* be written as a one-character literal; this atom stands for it.
Backtick == "U+0060"

DangerousChars == {" ", "&", "|", ";", Backtick, "$", "(", ")", "<", ">", "\"", "'"}

\* One octet of <Ipv4Addr as FromStr>: 1..3 decimal digits, no leading zero
\* unless the octet is "0", value at most 255.
Ipv4Octet(p) ==
    /\ Len(p) \in 1..3
    /\ AllDigits(p)
    /\ (Len(p) > 1 => p[1] # "0")
    /\ DecValue(p) <= 255

ParsesIpv4(str) ==
    LET parts == Split(str, ".")
    IN  /\ Len(parts) = 4
        /\ \A i \in 1..4 : Ipv4Octet(parts[i])

\* One group of <Ipv6Addr as FromStr>: 1..4 hexadecimal digits.
Ipv6Group(p) ==
    /\ Len(p) \in 1..4
    /\ \A i \in 1..Len(p) : p[i] \in Digits \cup HexLetters

\* A run of colon-separated groups, the last of which may be a dotted quad
\* (worth two groups); the empty string is the empty run.  The value is the
\* number of 16-bit groups, or -1 when the run is malformed.
GroupRun(str) ==
    IF str = <<>> THEN 0
    ELSE LET parts == Split(str, ":")
             n == Len(parts)
         IN  IF /\ \A i \in 1..(n - 1) : Ipv6Group(parts[i])
                /\ Ipv6Group(parts[n]) \/ ParsesIpv4(parts[n])
             THEN IF Ipv6Group(parts[n]) THEN n ELSE n + 1
             ELSE -1

\* <Ipv6Addr as FromStr>: eight groups, or fewer around a single "::".
ParsesIpv6(str) ==
    \/ GroupRun(str) = 8
    \/ \E k \in 1..(Len(str) - 1) :
          /\ str[k] = ":" /\ str[k + 1] = ":"
          /\ LET head == GroupRun(SubSeq(str, 1, k - 1))
                 tail == GroupRun(SubSeq(str, k + 2, Len(str)))
                 headV4 == k > 1 /\ ContainsChar(SubSeq(str, 1, k - 1), ".")
             IN  /\ head >= 0 /\ tail >= 0 /\ ~headV4
                 /\ head + tail <= 7

\* target.parse::<std::net::IpAddr>().is_ok()
ParsesIpAddr(str) == ParsesIpv4(str) \/ ParsesIpv6(str)

MaxDomainLen == 255

\* Faulty variant of IsDomain: the "no double dots" test is missing.
IsDomain_AllowsDoubleDot(target) ==
    /\ target # <<>>
    /\ Len(target) <= MaxDomainLen
    /\ \A i \in 1..Len(target) :
          IsAsciiAlphanumeric(target[i]) \/ target[i] \in {".", "-", "_"}
    /\ IsAsciiAlphanumeric(target[1])
    /\ IsAsciiAlphanumeric(target[Len(target)])
    /\ ContainsChar(target, ".")

IsDomain(target) ==
    /\ target # <<>>
    /\ Len(target) <= MaxDomainLen
    /\ \A i \in 1..Len(target) :
          IsAsciiAlphanumeric(target[i]) \/ target[i] \in {".", "-", "_"}
    /\ IsAsciiAlphanumeric(target[1])
    /\ IsAsciiAlphanumeric(target[Len(target)])
    /\ ContainsChar(target, ".")
    /\ ~ContainsStr(target, <<".", ".">>)

HasDangerousChar(target) == \E i \in 1..Len(target) : target[i] \in DangerousChars

\* Faulty variant of is_valid_target: the early return for a dangerous character returns true.
is_valid_target_ReturnsTrue(target) ==
    IF HasDangerousChar(target) THEN TRUE
    ELSE ParsesIpAddr(target) \/ IsDomain(target)

is_valid_target(target) ==
    IF HasDangerousChar(target) THEN FALSE
    ELSE ParsesIpAddr(target) \/ IsDomain(target)

(***************************************************************************)
(* prepare_trace_command                                                   *)
(***************************************************************************)
DigitChar(d) ==
    CASE d = 0 -> "0" [] d = 1 -> "1" [] d = 2 -> "2" [] d = 3 -> "3"
      [] d = 4 -> "4" [] d = 5 -> "5" [] d = 6 -> "6" [] d = 7 -> "7"
      [] d = 8 -> "8" [] d = 9 -> "9"

\* u32::to_string / u64::to_string
RECURSIVE ToDecString(_)
ToDecString(n) ==
    IF n < 10 THEN <<DigitChar(n)>>
    ELSE Append(ToDecString(n \div 10), DigitChar(n % 10))

\* A u64 such as timeout_ms is kept in two limbs, hi * 2^53 + lo with
\* hi in {0, 1} and lo below 2^31 (the integers TLC computes with are 32 bits
\* wide): the values below 2^31 and the values just above 2^53, where
\* `as f64` stops being exact.
U64(hi, lo) == [hi |-> hi, lo |-> lo]

\* 2^53 in decimal
TwoTo53Digits ==
    <<"9", "0", "0", "7", "1", "9", "9", "2", "5", "4", "7", "4", "0", "9", "9", "2">>

\* 2^53 = 1000 * 9007199254740 + 992: the quotient in decimal, the remainder
SecOf2To53Digits ==
    <<"9", "0", "0", "7", "1", "9", "9", "2", "5", "4", "7", "4", "0">>

MsOf2To53 == 992

\* The decimal digits of (the number written ds) + n
RECURSIVE AddDec(_, _)
AddDec(ds, n) ==
    IF n = 0 THEN ds
    ELSE IF ds = <<>> THEN ToDecString(n)
    ELSE LET v == DigitVal(ds[Len(ds)]) + n
         IN  Append(AddDec(SubSeq(ds, 1, Len(ds) - 1), v \div 10), DigitChar(v % 10))

\* u64::to_string
U64ToString(v) == IF v.hi = 0 THEN ToDecString(v.lo) ELSE AddDec(TwoTo53Digits, v.lo)

\* `timeout_ms as f64`: exact below 2^53; in [2^53, 2^54) the doubles are the
\* even integers, an odd value is a tie and goes to the neighbour whose
\* significand is even, the multiple of 4.
AsF64(v) ==
    IF v.hi = 0 \/ v.lo % 2 = 0 THEN v
    ELSE IF (v.lo + 1) % 4 = 0 THEN U64(1, v.lo + 1) ELSE U64(1, v.lo - 1)

\* std::cmp::max((timeout_ms as f64 / 1000.0).ceil() as u64, 1), in seconds
\* as [big, off]: off, plus 9007199254740 when big.  The quotient k + r/1000
\* is rounded to a double: below 2^31 ms the doubles around k are far finer
\* than 1/1000 and the fraction survives; around 9007199254740 they are
\* 1/512 apart and r/1000 rounds to m/512, m = round(512 r / 1000) (never a
\* tie, 125 being odd).  ceil adds one when the rounded fraction is not zero.
TimeoutSec(timeout_ms) ==
    LET f == AsF64(timeout_ms)
        w == IF f.hi = 0 THEN f.lo ELSE MsOf2To53 + f.lo
        k == w \div 1000
        r == w % 1000
        m == IF f.hi = 0 THEN r ELSE (1024 * r + 1000) \div 2000
        ceil == IF m = 0 THEN k ELSE k + 1
    IN  [big |-> f.hi = 1, off |-> IF f.hi = 0 /\ ceil < 1 THEN 1 ELSE ceil]

\* u64::to_string of the seconds
SecToString(sec) ==
    IF sec.big THEN AddDec(SecOf2To53Digits, sec.off) ELSE ToDecString(sec.off)

OptArg(flag, value) ==
    IF IsSome(value) THEN <<flag, ToDecString(Unwrap(value))>> ELSE <<>>

\* The #[cfg(windows)] block: -d is pushed first and removed again when
\* resolve_dns is Some(true).
WindowsArgs(options) ==
    (IF options.resolve_dns = Some(TRUE) THEN <<>> ELSE << <<"-", "d">> >>)
    \o OptArg(<<"-", "h">>, options.max_hops)
    \o (IF IsSome(options.timeout_ms)
        THEN << <<"-", "w">>, U64ToString(Unwrap(options.timeout_ms)) >>
        ELSE <<>>)

\* The #[cfg(unix)] block: -n is pushed only when resolve_dns is Some(false).
UnixArgs(options) ==
    OptArg(<<"-", "m">>, options.max_hops)
    \o (IF IsSome(options.timeout_ms)
        THEN << <<"-", "w">>, SecToString(TimeoutSec(Unwrap(options.timeout_ms))) >>
        ELSE <<>>)
    \o OptArg(<<"-", "q">>, options.probes_per_hop)
    \o (IF options.resolve_dns = Some(FALSE) THEN << <<"-", "n">> >> ELSE <<>>)

\* (cmd, args) of the Ok the function always returns
prepare_trace_command(os, target, options) ==
    IF os = "windows"
    THEN [cmd |-> "tracert", args |-> Append(WindowsArgs(options), target)]
    ELSE [cmd |-> "traceroute", args |-> Append(UnixArgs(options), target)]

(***************************************************************************)
(* parse_traceroute_line                                                   *)
(***************************************************************************)
Whitespace == {" ", "\t"}

RECURSIVE TrimStart(_)
TrimStart(str) ==
    IF str # <<>> /\ str[1] \in Whitespace THEN TrimStart(Tail(str)) ELSE str

RECURSIVE TrimEnd(_)
TrimEnd(str) ==
    IF str # <<>> /\ str[Len(str)] \in Whitespace
    THEN TrimEnd(SubSeq(str, 1, Len(str) - 1))
    ELSE str

\* str::trim
Trim(str) == TrimEnd(TrimStart(str))

\* str::split_whitespace: the maximal runs of non-whitespace characters
RECURSIVE SplitWs(_, _, _)
SplitWs(str, i, cur) ==
    IF i > Len(str) THEN (IF cur = <<>> THEN <<>> ELSE <<cur>>)
    ELSE IF str[i] \in Whitespace
         THEN (IF cur = <<>> THEN <<>> ELSE <<cur>>) \o SplitWs(str, i + 1, <<>>)
         ELSE SplitWs(str, i + 1, Append(cur, str[i]))

SplitWhitespace(str) == SplitWs(str, 1, <<>>)

\* str::trim_start_matches('<')
RECURSIVE TrimStartLt(_)
TrimStartLt(str) ==
    IF str # <<>> /\ str[1] = "<" THEN TrimStartLt(Tail(str)) ELSE str

\* str::strip_suffix("ms") of a string that ends with "ms"
StripMs(str) == SubSeq(str, 1, Len(str) - 2)

MS == <<"m", "s">>

\* u32::MAX and u8::MAX as decimal digits (4294967295 is beyond the
\* integers TLC computes with, so bounds are compared digit by digit).
U32MaxDigits == <<"4", "2", "9", "4", "9", "6", "7", "2", "9", "5">>

U8MaxDigits == <<"2", "5", "5">>

RECURSIVE StripZeros(_)
StripZeros(str) ==
    IF Len(str) > 1 /\ str[1] = "0" THEN StripZeros(Tail(str)) ELSE str

\* a <= b for digit strings of equal length
RECURSIVE LexLeq(_, _)
LexLeq(a, b) ==
    IF a = <<>> THEN TRUE
    ELSE IF DigitVal(a[1]) < DigitVal(b[1]) THEN TRUE
    ELSE IF DigitVal(a[1]) > DigitVal(b[1]) THEN FALSE
    ELSE LexLeq(Tail(a), Tail(b))

\* the number written a is at most the number written b (b without leading zeros)
DecLeq(a, b) ==
    LET n == StripZeros(a)
    IN  \/ Len(n) < Len(b)
        \/ Len(n) = Len(b) /\ LexLeq(n, b)

\* <uN as FromStr>: an optional '+', then one or more decimal digits, the
\* value at most max.  Some(value) or None.
ParseUnsigned(str, max) ==
    LET body == IF str # <<>> /\ str[1] = "+" THEN Tail(str) ELSE str
    IN  IF body # <<>> /\ AllDigits(body) /\ DecLeq(body, max)
        THEN Some(DecValue(StripZeros(body)))
        ELSE None

RECURSIVE Pow10(_)
Pow10(n) == IF n = 0 THEN 1 ELSE 10 * Pow10(n - 1)

\* <f64 as FromStr> on decimal notation: an optional sign, digits with at
\* most one '.', at least one digit.  The value num/den is kept as an exact
\* fraction.  (Exponents and the words inf / nan are outside the alphabets
\* the model draws latency tokens from.)
ParseF64(str) ==
    LET signed == str # <<>> /\ str[1] \in {"+", "-"}
        body == IF signed THEN Tail(str) ELSE str
        pieces == Split(body, ".")
        whole == pieces[1]
        frac == IF Len(pieces) = 2 THEN pieces[2] ELSE <<>>
        sign == IF signed /\ str[1] = "-" THEN -1 ELSE 1
    IN  IF /\ Len(pieces) \in {1, 2}
           /\ AllDigits(whole) /\ AllDigits(frac)
           /\ Len(whole) + Len(frac) >= 1
        THEN Some([num |-> sign * (DecValue(whole) * Pow10(Len(frac)) + DecValue(frac)),
                   den |-> Pow10(Len(frac))])
        ELSE None

\* is_valid_ipv4_format: four '.'-separated pieces that each parse as u8
is_valid_ipv4_format(str) ==
    LET parts == Split(str, ".")
    IN  /\ Len(parts) = 4
        /\ \A i \in 1..4 : IsSome(ParseUnsigned(parts[i], U8MaxDigits))

\* The present samples of a latency vector (filter_map)
RECURSIVE ValidLatencies(_)
ValidLatencies(lat) ==
    IF lat = <<>> THEN <<>>
    ELSE (IF IsSome(lat[1]) THEN <<Unwrap(lat[1])>> ELSE <<>>)
         \o ValidLatencies(Tail(lat))

MaxOf(a, b) == IF a > b THEN a ELSE b

\* The sum of fractions whose denominators are powers of ten
RECURSIVE SumFrac(_)
SumFrac(vals) ==
    IF vals = <<>> THEN [num |-> 0, den |-> 1]
    ELSE LET rest == SumFrac(Tail(vals))
             d == MaxOf(vals[1].den, rest.den)
         IN  [num |-> vals[1].num * (d \div vals[1].den) + rest.num * (d \div rest.den),
              den |-> d]

\* sum / len over the present samples, None when there is none
AvgLatency(lat) ==
    LET valid == ValidLatencies(lat)
        sum == SumFrac(valid)
    IN  IF valid = <<>> THEN None
        ELSE Some([num |-> sum.num, den |-> sum.den * Len(valid)])

\* The HopData both platform blocks build: latencies is always the empty
\* vector, the samples only feed avg_latency and status.
HopFromSamples(hop_num, host_part, ip_part, lat) ==
    [hop |-> hop_num, host |-> host_part, ip |-> ip_part,
     latencies |-> <<>>,
     avg_latency |-> AvgLatency(lat),
     status |-> IF ValidLatencies(lat) # <<>> THEN "success" ELSE "timeout",
     geo |-> None]

\* Faulty variant of TimeoutHop: the record carries no samples.
TimeoutHop_NoSamples(hop_num) ==
    [hop |-> hop_num, host |-> None, ip |-> None,
     latencies |-> <<>>,
     avg_latency |-> None, status |-> "timeout", geo |-> None]

TimeoutHop(hop_num) ==
    [hop |-> hop_num, host |-> None, ip |-> None,
     latencies |-> <<None, None, None>>,
     avg_latency |-> None, status |-> "timeout", geo |-> None]

MaxLatencyCount == 3

\* The #[cfg(windows)] latency loop from index i (1-based) with the samples
\* collected so far: [lat, i] when it stops.
RECURSIVE WinLatencies(_, _, _)
WinLatencies(parts, i, lat) ==
    IF i <= Len(parts) /\ Len(lat) < MaxLatencyCount
    THEN LET part == parts[i]
         IN  IF EndsWith(part, MS)
             THEN WinLatencies(parts, i + 1,
                               Append(lat, ParseF64(TrimStartLt(StripMs(part)))))
             ELSE IF part = <<"*">>
                  THEN WinLatencies(parts, i + 1, Append(lat, None))
                  ELSE WinLatencies(parts, i + 1, lat)
    ELSE [lat |-> lat, i |-> i]

IsBracketed(part) == part # <<>> /\ part[1] = "[" /\ part[Len(part)] = "]"

IsParenthesized(part) == part # <<>> /\ part[1] = "(" /\ part[Len(part)] = ")"

Inner(part) == SubSeq(part, 2, Len(part) - 1)

\* The #[cfg(windows)] address scan from index j: [ip, host]
RECURSIVE WinAddress(_, _)
WinAddress(parts, j) ==
    IF j > Len(parts) THEN [ip |-> None, host |-> None]
    ELSE LET part == parts[j]
         IN  IF IsBracketed(part)
             THEN IF is_valid_ipv4_format(Inner(part))
                  THEN [ip |-> Some(Inner(part)),
                        host |-> IF j > 1 /\ ~EndsWith(parts[j - 1], MS)
                                          /\ parts[j - 1] # <<"*">>
                                 THEN Some(parts[j - 1]) ELSE None]
                  ELSE WinAddress(parts, j + 1)
             ELSE IF ContainsChar(part, ".") /\ is_valid_ipv4_format(part)
                  THEN [ip |-> Some(part), host |-> None]
                  ELSE WinAddress(parts, j + 1)

ParseWindows(hop_num, parts) ==
    LET scan == WinLatencies(parts, 2, <<>>)
        addr == WinAddress(parts, scan.i)
    IN  Some(HopFromSamples(hop_num, addr.host, addr.ip, scan.lat))

\* The #[cfg(unix)] address prefix: [ip, host, next], next the 1-based index
\* of the first part the latency loop will see.
UnixAddress(parts) ==
    IF Len(parts) < 2 THEN [ip |-> None, host |-> None, next |-> 2]
    ELSE IF ContainsStr(parts[2], MS) \/ parts[2][1] = "("
         THEN [ip |-> None, host |-> None, next |-> 3]
         ELSE IF Len(parts) < 3
              THEN [ip |-> None, host |-> None, next |-> 3]
              ELSE IF IsParenthesized(parts[3])
                   THEN [ip |-> Some(Inner(parts[3])), host |-> Some(parts[2]),
                         next |-> 4]
                   ELSE [ip |-> Some(parts[2]), host |-> None, next |-> 4]

\* The #[cfg(unix)] latency loop: Some(samples), or None when a part ending
\* in "ms" has a numeric part that does not parse (the `?` returns).
RECURSIVE UnixLatencies(_, _, _)
UnixLatencies(parts, i, lat) ==
    IF i > Len(parts) THEN Some(lat)
    ELSE LET part == parts[i]
         IN  IF EndsWith(part, MS)
             THEN LET time == ParseF64(StripMs(part))
                  IN  IF IsSome(time)
                      THEN UnixLatencies(parts, i + 1, Append(lat, time))
                      ELSE None
             ELSE IF part = <<"*">>
                  THEN UnixLatencies(parts, i + 1, Append(lat, None))
                  ELSE UnixLatencies(parts, i + 1, lat)

ParseUnix(hop_num, parts) ==
    LET addr == UnixAddress(parts)
        lat == UnixLatencies(parts, addr.next, <<>>)
    IN  IF IsSome(lat)
        THEN Some(HopFromSamples(hop_num, addr.host, addr.ip, Unwrap(lat)))
        ELSE None

StrTracing == <<"T", "r", "a", "c", "i", "n", "g">>

StrOverAMaximum ==
    <<"o", "v", "e", "r", " ", "a", " ", "m", "a", "x", "i", "m", "u", "m">>

StrTraceComplete ==
    <<"T", "r", "a", "c", "e", " ", "c", "o", "m", "p", "l", "e", "t", "e">>

StrRequestTimedOut ==
    <<"R", "e", "q", "u", "e", "s", "t", " ", "t", "i", "m", "e", "d", " ",
      "o", "u", "t">>

\* parse_traceroute_line as compiled for platform os: Some(HopData) or None
parse_traceroute_line(os, raw_line) ==
    LET line == Trim(raw_line)
        parts == SplitWhitespace(line)
    IN  IF \/ line = <<>>
           \/ StartsWith(line, StrTracing)
           \/ StartsWith(line, StrOverAMaximum)
           \/ StartsWith(line, StrTraceComplete)
        THEN None
        ELSE IF parts = <<>> THEN None
        ELSE LET hop_num == ParseUnsigned(parts[1], U32MaxDigits)
             IN  IF ~IsSome(hop_num) THEN None
                 ELSE IF ContainsStr(line, StrRequestTimedOut)
                      THEN Some(TimeoutHop(Unwrap(hop_num)))
                      ELSE IF os = "windows"
                           THEN ParseWindows(Unwrap(hop_num), parts)
                           ELSE ParseUnix(Unwrap(hop_num), parts)

(***************************************************************************)
(* geo_lookup_inner                                                        *)
(***************************************************************************)
Str10 == <<"1", "0", ".">>

Str192168 == <<"1", "9", "2", ".", "1", "6", "8", ".">>

Str172 == <<"1", "7", "2", ".">>

\* Faulty variant of IsPrivatePrefix: the second octet's range ends at 32.
IsPrivatePrefix_WrongRange(ip) ==
    \/ StartsWith(ip, Str10)
    \/ StartsWith(ip, Str192168)
    \/ /\ StartsWith(ip, Str172)
       /\ LET parts == Split(ip, ".")
              octet == IF Len(parts) > 1 THEN ParseUnsigned(parts[2], U8MaxDigits) ELSE None
              second_octet == IF IsSome(octet) THEN Unwrap(octet) ELSE 0
          IN  Len(parts) > 1 /\ second_octet \in 16..32

\* The private-range test at the head of geo_lookup_inner
IsPrivatePrefix(ip) ==
    \/ StartsWith(ip, Str10)
    \/ StartsWith(ip, Str192168)
    \/ /\ StartsWith(ip, Str172)
       /\ LET parts == Split(ip, ".")
              octet == IF Len(parts) > 1 THEN ParseUnsigned(parts[2], U8MaxDigits) ELSE None
              second_octet == IF IsSome(octet) THEN Unwrap(octet) ELSE 0
          IN  Len(parts) > 1 /\ second_octet \in 16..31

GeoResult(lat, lng, city, country, country_code) ==
    [lat |-> lat, lng |-> lng, city |-> city, country |-> country,
     country_code |-> country_code]

PrivateSentinel == GeoResult(None, None, Some("Private/Internal"), None, None)

UnknownSentinel == GeoResult(None, None, Some("Unknown"), Some("Unknown"), None)

Ip8888 == <<"8", ".", "8", ".", "8", ".", "8">>

\* db.lookup::<City>(addr) on the loaded database: the model's database
\* holds one city record, for 8.8.8.8; every other address is not found.
DbLookup(ip) ==
    IF ip = Ip8888
    THEN Some(GeoResult(Some(37), Some(-122), Some("Mountain View"),
                        Some("United States"), Some("US")))
    ELSE None

\* geo_lookup_inner(ip) with GEO_DB loaded (db = TRUE) or None (db = FALSE):
\* [ok, value] where value is the GeoResult of an Ok
geo_lookup_inner(db, ip) ==
    IF IsPrivatePrefix(ip) THEN [ok |-> TRUE, value |-> PrivateSentinel]
    ELSE IF ~db THEN [ok |-> FALSE, value |-> "Geolocation database not loaded"]
    ELSE IF ~ParsesIpAddr(ip) THEN [ok |-> FALSE, value |-> "Invalid IP address"]
    ELSE IF IsSome(DbLookup(ip)) THEN [ok |-> TRUE, value |-> Unwrap(DbLookup(ip))]
    ELSE [ok |-> TRUE, value |-> UnknownSentinel]

UnwrapOr(opt, default) == IF IsSome(opt) THEN Unwrap(opt) ELSE default

\* The enrichment of one parsed hop in the read loop (both stream branches)
EnrichHop(db, hop_data) ==
    IF IsSome(hop_data.ip)
    THEN LET geo_result == geo_lookup_inner(db, Unwrap(hop_data.ip))
         IN  IF geo_result.ok
             THEN [hop_data EXCEPT !.geo =
                     Some([lat |-> UnwrapOr(geo_result.value.lat, 0),
                           lng |-> UnwrapOr(geo_result.value.lng, 0),
                           city |-> geo_result.value.city,
                           country |-> geo_result.value.country,
                           country_code |-> geo_result.value.country_code])]
             ELSE hop_data
    ELSE hop_data

(***************************************************************************)
(* The registry and its sessions                                           *)
(***************************************************************************)
\* Calls of run_trace; a call that passes validation creates the session
\* (the uuid) of that name.
Sessions == {"t1", "t2"}

\* Lines the children may write in total (all sessions, both streams)
MaxLines == 2

TargetOk == <<"a", ".", "b">>

TargetInjection == <<"a", ".", "b", ";", "l", "s">>

TargetNoDot == <<"h", "o", "s", "t">>

Targets == {TargetOk, TargetInjection, TargetNoDot}

DefaultOptions ==
    [max_hops |-> None, timeout_ms |-> None, probes_per_hop |-> None,
     resolve_dns |-> None]

OptionsSet == {DefaultOptions}

\* "1 8.8.8.8 5ms": a hop on both platform variants
LineHop1 == <<"1", " ", "8", ".", "8", ".", "8", ".", "8", " ", "5", "m", "s">>

\* "2 10.0.0.1 *": a hop on both platform variants
LineHop2 == <<"2", " ", "1", "0", ".", "0", ".", "0", ".", "1", " ", "*">>

\* "Tracing": a banner, never a hop
LineBanner == StrTracing

StdoutLines == {LineHop1, LineBanner}

StderrLines == {LineHop2}

VARIABLES
    os,                 \* the platform the program was compiled for
    GEO_DB,             \* TRUE when the Lazy static holds a Reader
    running_traces,     \* the ids held by AppState.running_traces
    lock,               \* the stop_trace call inside the registry mutex, if any
    cmd,                \* per call of run_trace: where it is
    target,             \* per call: the target argument
    command,            \* per call: Some((cmd, args)) once prepared
    task,               \* per session: where the spawned task is
    abortReq,           \* per session: JoinHandle::abort was called
    notif,              \* per session: where the cancel notification is
    waiters,            \* per session: the Notify's waiter queue, oldest first
    child,              \* per session: the child process
    stdout_closed,
    stderr_closed,
    stdout_lines_read,
    cur,                \* per session: the line of the branch being run
    raw_output,         \* per session: the lines pushed, in order
    hops,
    result,             \* per session: Some(result of the task's select)
    events,             \* per session: the events emitted, in order
    stopped,            \* per id: a stop_trace call has returned Ok(())
    stop_place,         \* per id: where the task was when stop_trace found the entry
    input,              \* the argument of the pure function under check
    output              \* Some(its value) once applied

vars ==
    <<os, GEO_DB, running_traces, lock, cmd, target, command, task, abortReq,
      notif, waiters, child, stdout_closed, stderr_closed, stdout_lines_read,
      cur, raw_output, hops, result, events, stopped, stop_place, input, output>>

envVars == <<os, GEO_DB, input, output>>

stopVars == <<stopped, stop_place>>

cmdVars == <<cmd, target, command>>

notifyVars == <<notif, waiters>>

ioVars ==
    <<stdout_closed, stderr_closed, stdout_lines_read, cur, raw_output, hops>>

\* The state after main's .manage(AppState { running_traces: HashMap::new() })
InitSessions ==
    /\ running_traces = {}
    /\ lock = None
    /\ cmd = [s \in Sessions |-> "idle"]
    /\ target = [s \in Sessions |-> None]
    /\ command = [s \in Sessions |-> None]
    /\ task = [s \in Sessions |-> "none"]
    /\ abortReq = [s \in Sessions |-> FALSE]
    /\ notif = [s \in Sessions |-> "none"]
    /\ waiters = [s \in Sessions |-> <<>>]
    /\ child = [s \in Sessions |-> "none"]
    /\ stdout_closed = [s \in Sessions |-> FALSE]
    /\ stderr_closed = [s \in Sessions |-> FALSE]
    /\ stdout_lines_read = [s \in Sessions |-> 0]
    /\ cur = [s \in Sessions |-> None]
    /\ raw_output = [s \in Sessions |-> <<>>]
    /\ hops = [s \in Sessions |-> <<>>]
    /\ result = [s \in Sessions |-> None]
    /\ events = [s \in Sessions |-> <<>>]
    /\ stopped = [s \in Sessions |-> FALSE]
    /\ stop_place = [s \in Sessions |-> None]

Init ==
    /\ os \in {"windows", "unix"}
    /\ GEO_DB \in BOOLEAN
    /\ InitSessions
    /\ input = None
    /\ output = None

(***************************************************************************)
(* run_trace                                                               *)
(***************************************************************************)
\* run_trace, lines 316-320: the target fails validation, Err is returned.
RunTraceInvalid(s, t) ==
    /\ cmd[s] = "idle"
    /\ ~is_valid_target(t)
    /\ cmd' = [cmd EXCEPT ![s] = "invalid"]
    /\ target' = [target EXCEPT ![s] = Some(t)]
    /\ UNCHANGED <<envVars, running_traces, lock, command, task, abortReq,
                   notifyVars, child, ioVars, result, events, stopVars>>

\* Faulty variant of RunTraceSpawn: the task is spawned without the validation of lines 316-320.
RunTraceSpawn_Unvalidated(s, t, options) ==
    /\ cmd[s] = "idle"
    /\ cmd' = [cmd EXCEPT ![s] = "spawned"]
    /\ target' = [target EXCEPT ![s] = Some(t)]
    /\ command' = [command EXCEPT ![s] = Some(prepare_trace_command(os, t, options))]
    /\ task' = [task EXCEPT ![s] = "ready"]
    /\ UNCHANGED <<envVars, running_traces, lock, abortReq, notifyVars, child,
                   ioVars, result, events, stopVars>>

\* run_trace, lines 316-357: validation passes, the command is prepared and
\* the task is handed to tokio::spawn; the future has not been polled yet.
RunTraceSpawn(s, t, options) ==
    /\ cmd[s] = "idle"
    /\ is_valid_target(t)
    /\ cmd' = [cmd EXCEPT ![s] = "spawned"]
    /\ target' = [target EXCEPT ![s] = Some(t)]
    /\ command' = [command EXCEPT ![s] = Some(prepare_trace_command(os, t, options))]
    /\ task' = [task EXCEPT ![s] = "ready"]
    /\ UNCHANGED <<envVars, running_traces, lock, abortReq, notifyVars, child,
                   ioVars, result, events, stopVars>>

\* run_trace, lines 360-374: the entry is inserted under the mutex and
\* Ok(trace_id) is returned.
RunTraceInsert(s) ==
    /\ cmd[s] = "spawned"
    /\ lock = None
    /\ running_traces' = running_traces \cup {s}
    /\ cmd' = [cmd EXCEPT ![s] = "ok"]
    /\ UNCHANGED <<envVars, lock, target, command, task, abortReq, notifyVars,
                   child, ioVars, result, events, stopVars>>

(***************************************************************************)
(* stop_trace                                                              *)
(***************************************************************************)
\* Notify::notify_one: the oldest waiter takes the notification; with no
\* waiter it is stored as the permit.
NotifyOne(s) ==
    IF waiters[s] = <<>>
    THEN /\ notif' = [notif EXCEPT ![s] = "permit"]
         /\ UNCHANGED waiters
    ELSE /\ notif' = [notif EXCEPT ![s] = Head(waiters[s])]
         /\ waiters' = [waiters EXCEPT ![s] = Tail(waiters[s])]

\* Faulty variant of StopTraceRemove: the entry is looked up, not removed.
StopTraceRemove_KeepsEntry(id) ==
    /\ lock = None
    /\ id \in running_traces
    /\ lock' = Some(id)
    /\ NotifyOne(id)
    /\ stop_place' = [stop_place EXCEPT ![id] = Some(task[id])]
    /\ UNCHANGED <<envVars, running_traces, cmdVars, task, abortReq, child,
                   ioVars, result, events, stopped>>

\* stop_trace, lines 589-591: the entry is found and removed, the session's
\* Notify is signalled; the mutex stays held.
StopTraceRemove(id) ==
    /\ lock = None
    /\ id \in running_traces
    /\ running_traces' = running_traces \ {id}
    /\ lock' = Some(id)
    /\ NotifyOne(id)
    /\ stop_place' = [stop_place EXCEPT ![id] = Some(task[id])]
    /\ UNCHANGED <<envVars, cmdVars, task, abortReq, child, ioVars, result,
                   events, stopped>>

\* stop_trace, lines 594-596: the task is aborted, Ok(()) is returned and
\* the guard is dropped.
StopTraceAbort(id) ==
    /\ lock = Some(id)
    /\ abortReq' = [abortReq EXCEPT ![id] = TRUE]
    /\ stopped' = [stopped EXCEPT ![id] = TRUE]
    /\ lock' = None
    /\ UNCHANGED <<envVars, running_traces, cmdVars, task, notifyVars, child,
                   ioVars, result, events, stop_place>>

\* stop_trace, lines 597-599: no entry, Err("Trace not found").
StopTraceNotFound(id) ==
    /\ lock = None
    /\ id \notin running_traces
    /\ UNCHANGED vars

(***************************************************************************)
(* The spawned task: the outer select of run_trace around                  *)
(* execute_trace_with_cancel                                               *)
(*                                                                         *)
(* task[s] is the place the task has reached.  "ready": spawned, never     *)
(* polled.  "loop", "wait", "kill", "cleanup": being polled, at the read   *)
(* loop's select, at timeout(child.wait()), at child.kill().await, at the  *)
(* registry lock().await.  "out_line", "err_line": inside a stream branch. *)
(* "loop_idle", "wait_idle", "kill_idle", "cleanup_idle": suspended there  *)
(* (the poll returned Pending).  "done": the task returned.  "dropped":    *)
(* the aborted task was dropped by the runtime.                            *)
(***************************************************************************)
IdleStates == {"ready", "loop_idle", "wait_idle", "kill_idle", "cleanup_idle"}

Ok(value) == [ok |-> TRUE, error |-> "", value |-> Some(value)]

Err(msg) == [ok |-> FALSE, error |-> msg, value |-> None]

ErrSpawn == "Failed to start"

ErrStdout == "stdout read error"

ErrStderr == "stderr read error"

ErrCancelTask == "Trace cancelled by user"

ErrCancelExec == "[Rust] Trace cancelled by user"

ErrTimeout == "Process timed out after 60 seconds"

ErrWait == "Failed to wait for process"

Last(seq) == seq[Len(seq)]

RECURSIVE SumLen(_, _)
SumLen(f, S) ==
    IF S = {} THEN 0
    ELSE LET x == CHOOSE y \in S : TRUE
         IN  Len(f[x]) + SumLen(f, S \ {x})

\* Lines written by all children so far (every consumed line is pushed)
TotalLines == SumLen(raw_output, Sessions)

Without(seq, name) == SelectSeq(seq, LAMBDA x : x # name)

Has(seq, name) == \E i \in 1..Len(seq) : seq[i] = name

Register(seq, name) == IF Has(seq, name) THEN seq ELSE Append(seq, name)

\* A stream branch of the read loop's select completes: the select's
\* Notified future is dropped.  If it held the notification, Notified::drop
\* passes it on: to the outer waiter, or back into the Notify as the permit.
InnerDropped(s) ==
    IF notif[s] = "inner"
    THEN /\ notif' = [notif EXCEPT ![s] =
                        IF Has(waiters[s], "outer") THEN "outer" ELSE "permit"]
         /\ waiters' = [waiters EXCEPT ![s] = <<>>]
    ELSE /\ waiters' = [waiters EXCEPT ![s] = Without(waiters[s], "inner")]
         /\ UNCHANGED notif

\* The first poll reaches execute_trace_with_cancel, lines 384-422.  The
\* outer select polls its branches in random order: with outerFirst the
\* cancel branch was polled (and registered) before the trace future.
TaskStart(s, outerFirst, spawnOk) ==
    /\ task[s] = "ready"
    /\ ~abortReq[s]
    /\ outerFirst => notif[s] # "permit"
    /\ IF spawnOk
       THEN /\ child' = [child EXCEPT ![s] = "running"]
            /\ task' = [task EXCEPT ![s] = "loop"]
            /\ waiters' = [waiters EXCEPT ![s] =
                             IF outerFirst THEN <<"outer">> ELSE <<>>]
            /\ UNCHANGED result
       ELSE /\ child' = [child EXCEPT ![s] = "spawn_failed"]
            /\ task' = [task EXCEPT ![s] = "cleanup"]
            /\ result' = [result EXCEPT ![s] = Some(Err(ErrSpawn))]
            /\ UNCHANGED waiters
    /\ UNCHANGED <<envVars, running_traces, lock, cmdVars, abortReq, notif,
                   ioVars, events, stopVars>>

\* The outer select's cancel branch, line 345: cancel_for_task.notified()
\* is ready when the task is polled, or when the trace future returns
\* Pending.  The trace future is dropped where it stands; the Child is
\* dropped with it (kill_on_drop is not set).
OuterCancel(s) ==
    /\ \/ task[s] = "ready" /\ ~abortReq[s] /\ notif[s] = "permit"
       \/ task[s] = "loop" /\ notif[s] = "outer"
       \/ task[s] = "wait" /\ notif[s] \in {"outer", "permit"}
    /\ result' = [result EXCEPT ![s] = Some(Err(ErrCancelTask))]
    /\ task' = [task EXCEPT ![s] = "cleanup"]
    /\ notif' = [notif EXCEPT ![s] = "none"]
    /\ waiters' = [waiters EXCEPT ![s] = <<>>]
    /\ UNCHANGED <<envVars, running_traces, lock, cmdVars, abortReq, child,
                   ioVars, events, stopVars>>

\* Faulty variant of ReadStdoutLine: the event is emitted before the counter
\* is incremented.
ReadStdoutLine_StaleLineNo(s, line) ==
    /\ task[s] = "loop"
    /\ ~(stdout_closed[s] /\ stderr_closed[s])
    /\ ~stdout_closed[s]
    /\ TotalLines < MaxLines
    /\ stdout_lines_read' = [stdout_lines_read EXCEPT ![s] = @ + 1]
    /\ events' = [events EXCEPT ![s] =
                    Append(@, [type |-> "trace:line",
                               line_no |-> stdout_lines_read[s],
                               line |-> line])]
    /\ raw_output' = [raw_output EXCEPT ![s] = Append(@, line)]
    /\ cur' = [cur EXCEPT ![s] = Some(line)]
    /\ task' = [task EXCEPT ![s] = "out_line"]
    /\ InnerDropped(s)
    /\ UNCHANGED <<envVars, running_traces, lock, cmdVars, abortReq, child,
                   stdout_closed, stderr_closed, hops, result, stopVars>>

\* Lines 426-437: out_reader.next_line() yields a line; the trace:line
\* event is emitted and the line is pushed onto raw_output.
ReadStdoutLine(s, line) ==
    /\ task[s] = "loop"
    /\ ~(stdout_closed[s] /\ stderr_closed[s])
    /\ ~stdout_closed[s]
    /\ TotalLines < MaxLines
    /\ stdout_lines_read' = [stdout_lines_read EXCEPT ![s] = @ + 1]
    /\ events' = [events EXCEPT ![s] =
                    Append(@, [type |-> "trace:line",
                               line_no |-> stdout_lines_read[s] + 1,
                               line |-> line])]
    /\ raw_output' = [raw_output EXCEPT ![s] = Append(@, line)]
    /\ cur' = [cur EXCEPT ![s] = Some(line)]
    /\ task' = [task EXCEPT ![s] = "out_line"]
    /\ InnerDropped(s)
    /\ UNCHANGED <<envVars, running_traces, lock, cmdVars, abortReq, child,
                   stdout_closed, stderr_closed, hops, result, stopVars>>

\* Lines 479-487: err_reader.next_line() yields a line; it is pushed onto
\* raw_output (no trace:line event on this branch).
ReadStderrLine(s, line) ==
    /\ task[s] = "loop"
    /\ ~(stdout_closed[s] /\ stderr_closed[s])
    /\ ~stderr_closed[s]
    /\ TotalLines < MaxLines
    /\ raw_output' = [raw_output EXCEPT ![s] = Append(@, line)]
    /\ cur' = [cur EXCEPT ![s] = Some(line)]
    /\ task' = [task EXCEPT ![s] = "err_line"]
    /\ InnerDropped(s)
    /\ UNCHANGED <<envVars, running_traces, lock, cmdVars, abortReq, child,
                   stdout_closed, stderr_closed, stdout_lines_read, hops,
                   result, events, stopVars>>

\* Faulty variant of ProcessLine: the hop is pushed before it is enriched.
ProcessLine_PushBeforeEnrich(s) ==
    /\ task[s] \in {"out_line", "err_line"}
    /\ LET parsed == parse_traceroute_line(os, Unwrap(cur[s]))
       IN  IF IsSome(parsed)
           THEN LET hop_data == EnrichHop(GEO_DB, Unwrap(parsed))
                IN  /\ hops' = [hops EXCEPT ![s] = Append(@, Unwrap(parsed))]
                    /\ events' = [events EXCEPT ![s] =
                                    Append(@, [type |-> "hop:update",
                                               hop_data |-> hop_data])]
           ELSE UNCHANGED <<hops, events>>
    /\ cur' = [cur EXCEPT ![s] = None]
    /\ task' = [task EXCEPT ![s] = "loop"]
    /\ UNCHANGED <<envVars, running_traces, lock, cmdVars, abortReq,
                   notifyVars, child, stdout_closed, stderr_closed,
                   stdout_lines_read, raw_output, result, stopVars>>

\* Lines 439-466 and 489-516: the line is parsed; a hop is enriched, pushed
\* and emitted as hop:update.  Nothing here suspends.
ProcessLine(s) ==
    /\ task[s] \in {"out_line", "err_line"}
    /\ LET parsed == parse_traceroute_line(os, Unwrap(cur[s]))
       IN  IF IsSome(parsed)
           THEN LET hop_data == EnrichHop(GEO_DB, Unwrap(parsed))
                IN  /\ hops' = [hops EXCEPT ![s] = Append(@, hop_data)]
                    /\ events' = [events EXCEPT ![s] =
                                    Append(@, [type |-> "hop:update",
                                               hop_data |-> hop_data])]
           ELSE UNCHANGED <<hops, events>>
    /\ cur' = [cur EXCEPT ![s] = None]
    /\ task' = [task EXCEPT ![s] = "loop"]
    /\ UNCHANGED <<envVars, running_traces, lock, cmdVars, abortReq,
                   notifyVars, child, stdout_closed, stderr_closed,
                   stdout_lines_read, raw_output, result, stopVars>>

\* Lines 468-471: Ok(None) on stdout (again on every later poll of the
\* closed stream).
StdoutEof(s) ==
    /\ task[s] = "loop"
    /\ ~(stdout_closed[s] /\ stderr_closed[s])
    /\ stdout_closed' = [stdout_closed EXCEPT ![s] = TRUE]
    /\ InnerDropped(s)
    /\ UNCHANGED <<envVars, running_traces, lock, cmdVars, task, abortReq,
                   child, stderr_closed, stdout_lines_read, cur, raw_output,
                   hops, result, events, stopVars>>

\* Faulty variant of StderrEof: the end of the stream is not recorded.
StderrEof_NotRecorded(s) ==
    /\ task[s] = "loop"
    /\ ~(stdout_closed[s] /\ stderr_closed[s])
    /\ InnerDropped(s)
    /\ UNCHANGED <<envVars, running_traces, lock, cmdVars, task, abortReq,
                   child, stdout_closed, stderr_closed, stdout_lines_read, cur,
                   raw_output, hops, result, events, stopVars>>

\* Lines 518-521: Ok(None) on stderr.
StderrEof(s) ==
    /\ task[s] = "loop"
    /\ ~(stdout_closed[s] /\ stderr_closed[s])
    /\ stderr_closed' = [stderr_closed EXCEPT ![s] = TRUE]
    /\ InnerDropped(s)
    /\ UNCHANGED <<envVars, running_traces, lock, cmdVars, task, abortReq,
                   child, stdout_closed, stdout_lines_read, cur, raw_output,
                   hops, result, events, stopVars>>

\* Lines 472-476 and 522-526: a read error on either stream returns Err.
StreamError(s, msg) ==
    /\ task[s] = "loop"
    /\ ~(stdout_closed[s] /\ stderr_closed[s])
    /\ \/ msg = ErrStdout /\ ~stdout_closed[s]
       \/ msg = ErrStderr /\ ~stderr_closed[s]
    /\ result' = [result EXCEPT ![s] = Some(Err(msg))]
    /\ task' = [task EXCEPT ![s] = "cleanup"]
    /\ waiters' = [waiters EXCEPT ![s] = <<>>]
    /\ UNCHANGED <<envVars, running_traces, lock, cmdVars, abortReq, notif,
                   child, ioVars, events, stopVars>>

\* Lines 529-531: the read loop's cancel branch; cancel_notify.notified()
\* takes the permit, or was handed the notification while it waited.
\* child.kill() is started.
InnerCancel(s) ==
    /\ task[s] = "loop"
    /\ ~(stdout_closed[s] /\ stderr_closed[s])
    /\ notif[s] \in {"permit", "inner"}
    /\ notif' = [notif EXCEPT ![s] = "none"]
    /\ waiters' = [waiters EXCEPT ![s] = Without(waiters[s], "inner")]
    /\ child' = [child EXCEPT ![s] = "killed"]
    /\ task' = [task EXCEPT ![s] = "kill"]
    /\ UNCHANGED <<envVars, running_traces, lock, cmdVars, abortReq, ioVars,
                   result, events, stopVars>>

\* Lines 531-534: child.kill().await completes, Err is returned.
KillReturn(s) ==
    /\ task[s] = "kill"
    /\ result' = [result EXCEPT ![s] = Some(Err(ErrCancelExec))]
    /\ task' = [task EXCEPT ![s] = "cleanup"]
    /\ waiters' = [waiters EXCEPT ![s] = <<>>]
    /\ UNCHANGED <<envVars, running_traces, lock, cmdVars, abortReq, notif,
                   child, ioVars, events, stopVars>>

\* Faulty variant of LoopExit: the loop ends when either stream is closed.
LoopExit_EitherClosed(s) ==
    /\ task[s] = "loop"
    /\ stdout_closed[s] \/ stderr_closed[s]
    /\ task' = [task EXCEPT ![s] = "wait"]
    /\ UNCHANGED <<envVars, running_traces, lock, cmdVars, abortReq,
                   notifyVars, child, ioVars, result, events, stopVars>>

\* Line 424: both streams are closed, the loop ends.
LoopExit(s) ==
    /\ task[s] = "loop"
    /\ stdout_closed[s] /\ stderr_closed[s]
    /\ task' = [task EXCEPT ![s] = "wait"]
    /\ UNCHANGED <<envVars, running_traces, lock, cmdVars, abortReq,
                   notifyVars, child, ioVars, result, events, stopVars>>

TraceResult(s) ==
    [target |-> Last(Unwrap(command[s]).args), resolved_ip |-> None,
     hops |-> hops[s], raw_output |-> raw_output[s]]

\* Faulty variant of ChildExit: a non-zero exit status is returned as an error.
ChildExit_NonZeroIsError(s, success) ==
    /\ task[s] = "wait"
    /\ child' = [child EXCEPT ![s] =
                   IF success THEN "exit_success" ELSE "exit_failure"]
    /\ result' = [result EXCEPT ![s] =
                    IF success THEN Some(Ok(TraceResult(s)))
                    ELSE Some(Err("failed with status code"))]
    /\ events' = [events EXCEPT ![s] =
                    IF success
                    THEN Append(@, [type |-> "trace:complete",
                                    result |-> TraceResult(s)])
                    ELSE @]
    /\ task' = [task EXCEPT ![s] = "cleanup"]
    /\ waiters' = [waiters EXCEPT ![s] = <<>>]
    /\ UNCHANGED <<envVars, running_traces, lock, cmdVars, abortReq, notif,
                   ioVars, stopVars>>

\* Lines 543-584: child.wait() returns a status within the bound.  Whatever
\* the status, the result is built, trace:complete is emitted and Ok is
\* returned.
ChildExit(s, success) ==
    /\ task[s] = "wait"
    /\ child' = [child EXCEPT ![s] =
                   IF success THEN "exit_success" ELSE "exit_failure"]
    /\ result' = [result EXCEPT ![s] = Some(Ok(TraceResult(s)))]
    /\ events' = [events EXCEPT ![s] =
                    Append(@, [type |-> "trace:complete",
                               result |-> TraceResult(s)])]
    /\ task' = [task EXCEPT ![s] = "cleanup"]
    /\ waiters' = [waiters EXCEPT ![s] = <<>>]
    /\ UNCHANGED <<envVars, running_traces, lock, cmdVars, abortReq, notif,
                   ioVars, stopVars>>

\* Lines 552-556: child.wait() itself fails.
WaitError(s) ==
    /\ task[s] = "wait"
    /\ result' = [result EXCEPT ![s] = Some(Err(ErrWait))]
    /\ task' = [task EXCEPT ![s] = "cleanup"]
    /\ waiters' = [waiters EXCEPT ![s] = <<>>]
    /\ UNCHANGED <<envVars, running_traces, lock, cmdVars, abortReq, notif,
                   child, ioVars, events, stopVars>>

\* Lines 543-551: the 60 second timer fires while the task is suspended on
\* child.wait(); the Elapsed error is mapped to a message and returned by
\* `?`.  The Child is dropped, nothing kills it.
Timeout(s) ==
    /\ task[s] = "wait_idle"
    /\ ~abortReq[s]
    /\ result' = [result EXCEPT ![s] = Some(Err(ErrTimeout))]
    /\ task' = [task EXCEPT ![s] = "cleanup"]
    /\ waiters' = [waiters EXCEPT ![s] = <<>>]
    /\ UNCHANGED <<envVars, running_traces, lock, cmdVars, abortReq, notif,
                   child, ioVars, events, stopVars>>

\* Faulty variant of Cleanup: the task empties the registry.
Cleanup_ClearsRegistry(s) ==
    /\ task[s] = "cleanup"
    /\ lock = None
    /\ running_traces' = {}
    /\ task' = [task EXCEPT ![s] = "done"]
    /\ UNCHANGED <<envVars, lock, cmdVars, abortReq, notifyVars, child,
                   ioVars, result, events, stopVars>>

\* Lines 350-355: the task removes its own id under the mutex and returns.
Cleanup(s) ==
    /\ task[s] = "cleanup"
    /\ lock = None
    /\ running_traces' = running_traces \ {s}
    /\ task' = [task EXCEPT ![s] = "done"]
    /\ UNCHANGED <<envVars, lock, cmdVars, abortReq, notifyVars, child,
                   ioVars, result, events, stopVars>>

RegisterOuter(s, seq) == IF notif[s] = "outer" THEN seq ELSE Register(seq, "outer")

\* The poll returns Pending: nothing the task awaits is ready.  At the read
\* loop the select's Notified registers, then the outer select's (if it has
\* not yet).
Yield(s) ==
    /\ \/ /\ task[s] = "loop"
          /\ notif[s] \notin {"permit", "inner"}
          /\ task' = [task EXCEPT ![s] = "loop_idle"]
          /\ waiters' = [waiters EXCEPT ![s] =
                           RegisterOuter(s, Register(waiters[s], "inner"))]
       \/ /\ task[s] = "wait"
          /\ notif[s] # "permit"
          /\ task' = [task EXCEPT ![s] = "wait_idle"]
          /\ waiters' = [waiters EXCEPT ![s] = RegisterOuter(s, waiters[s])]
       \/ /\ task[s] = "kill"
          /\ task' = [task EXCEPT ![s] = "kill_idle"]
          /\ waiters' = [waiters EXCEPT ![s] = RegisterOuter(s, waiters[s])]
       \/ /\ task[s] = "cleanup"
          /\ lock # None
          /\ task' = [task EXCEPT ![s] = "cleanup_idle"]
          /\ UNCHANGED waiters
    /\ UNCHANGED <<envVars, running_traces, lock, cmdVars, abortReq, notif,
                   child, ioVars, result, events, stopVars>>

WokenState(state) ==
    CASE state = "loop_idle" -> "loop"
      [] state = "wait_idle" -> "wait"
      [] state = "kill_idle" -> "kill"
      [] state = "cleanup_idle" -> "cleanup"

\* The runtime polls a suspended task that is not cancelled.
Wake(s) ==
    /\ task[s] \in IdleStates \ {"ready"}
    /\ ~abortReq[s]
    /\ task' = [task EXCEPT ![s] = WokenState(task[s])]
    /\ UNCHANGED <<envVars, running_traces, lock, cmdVars, abortReq,
                   notifyVars, child, ioVars, result, events, stopVars>>

\* JoinHandle::abort on a task that is not being polled (or whose poll
\* returned Pending): the runtime drops the future without polling it.
Drop(s) ==
    /\ task[s] \in IdleStates
    /\ abortReq[s]
    /\ task' = [task EXCEPT ![s] = "dropped"]
    /\ waiters' = [waiters EXCEPT ![s] = <<>>]
    /\ UNCHANGED <<envVars, running_traces, lock, cmdVars, abortReq, notif,
                   child, ioVars, result, events, stopVars>>

\* The steps of run_trace and stop_trace for one id
CommandStep(s) ==
    \/ \E t \in Targets : RunTraceInvalid(s, t)
    \/ \E t \in Targets, o \in OptionsSet : RunTraceSpawn(s, t, o)
    \/ RunTraceInsert(s)
    \/ StopTraceRemove(s)
    \/ StopTraceAbort(s)
    \/ StopTraceNotFound(s)

\* The steps of a session's task other than consuming a line
TaskStep(s) ==
    \/ \E first \in BOOLEAN, ok \in BOOLEAN : TaskStart(s, first, ok)
    \/ OuterCancel(s)
    \/ StdoutEof(s)
    \/ StderrEof(s)
    \/ \E msg \in {ErrStdout, ErrStderr} : StreamError(s, msg)
    \/ InnerCancel(s)
    \/ KillReturn(s)
    \/ LoopExit(s)
    \/ \E success \in BOOLEAN : ChildExit(s, success)
    \/ WaitError(s)
    \/ Timeout(s)
    \/ Cleanup(s)
    \/ Yield(s)
    \/ Wake(s)
    \/ Drop(s)

\* The steps that consume a line of the child's output
LineStep(s) ==
    \/ \E line \in StdoutLines : ReadStdoutLine(s, line)
    \/ \E line \in StderrLines : ReadStderrLine(s, line)
    \/ ProcessLine(s)

\* One caller: a single run_trace call whose child writes up to MaxLines
\* lines, and stop_trace calls for any id.
Caller == "t1"

Next ==
    \/ \E id \in Sessions : StopTraceNotFound(id)
    \/ CommandStep(Caller)
    \/ TaskStep(Caller)
    \/ LineStep(Caller)

Spec == Init /\ [][Next]_vars

\* Concurrent callers: every id may be started and stopped; the children
\* write no lines.
NextPair == \E s \in Sessions : CommandStep(s) \/ TaskStep(s)

InitPair == Init /\ os = "unix" /\ ~GEO_DB

SpecPair == InitPair /\ [][NextPair]_vars

(***************************************************************************)
(* is_valid_target applied to bounded strings                              *)
(***************************************************************************)
MaxTargetLen == 3

\* The twelve rejected characters, two more that no rule names, and one of
\* each kind a domain name or an IP address is written with.
TargetChars ==
    {" ", "&", "|", ";", Backtick, "$", "(", ")", "<", ">", "\"", "'", "/", "%",
     "a", "1", ".", "-", "_", ":"}

MaxNameLen == 5

\* The characters of names and of IPv6 literals: long enough strings over
\* them hold "a..b", "a.b-a", "::1:1".
NameChars == {"a", "1", ".", "-", ":"}

MaxQuadLen == 7

\* The characters of a dotted quad: strings over them reach "1.1.1.1".
QuadChars == {"1", "."}

\* "a.aaa...a" of length n, for the length rule
LongTarget(n) == [i \in 1..n |-> IF i = 2 THEN "." ELSE "a"]

TargetInputs ==
    UNION {[1..n -> TargetChars] : n \in 0..MaxTargetLen}
    \cup UNION {[1..n -> NameChars] : n \in 0..MaxNameLen}
    \cup UNION {[1..n -> QuadChars] : n \in 0..MaxQuadLen}
    \cup {LongTarget(n) : n \in (MaxDomainLen - 1)..(MaxDomainLen + 1)}

InitTarget ==
    /\ os = "unix"
    /\ GEO_DB = FALSE
    /\ InitSessions
    /\ input \in {Some(t) : t \in TargetInputs}
    /\ output = None

ValidateTarget ==
    /\ IsSome(input)
    /\ output = None
    /\ output' = Some(is_valid_target(Unwrap(input)))
    /\ UNCHANGED <<os, GEO_DB, input, running_traces, lock, cmdVars, task,
                   abortReq, notifyVars, child, ioVars, result, events,
                   stopVars>>

NextTarget == ValidateTarget

SpecTarget == InitTarget /\ [][NextTarget]_vars

(***************************************************************************)
(* prepare_trace_command applied to bounded options                        *)
(***************************************************************************)
MaxTimeoutMs == 2001

CommandOptions ==
    [max_hops : {None, Some(30)},
     timeout_ms : {None} \cup {Some(U64(hi, lo)) : hi \in {0, 1}, lo \in 0..MaxTimeoutMs},
     probes_per_hop : {None, Some(3)},
     resolve_dns : {None, Some(TRUE), Some(FALSE)}]

InitCommand ==
    /\ os \in {"windows", "unix"}
    /\ GEO_DB = FALSE
    /\ InitSessions
    /\ input \in {Some([target |-> TargetOk, options |-> o]) : o \in CommandOptions}
    /\ output = None

PrepareCommand ==
    /\ IsSome(input)
    /\ output = None
    /\ output' = Some(prepare_trace_command(os, Unwrap(input).target,
                                            Unwrap(input).options))
    /\ UNCHANGED <<os, GEO_DB, input, running_traces, lock, cmdVars, task,
                   abortReq, notifyVars, child, ioVars, result, events,
                   stopVars>>

NextCommand == PrepareCommand

SpecCommand == InitCommand /\ [][NextCommand]_vars

(***************************************************************************)
(* parse_traceroute_line applied to bounded lines                          *)
(***************************************************************************)
MaxTokens == 3

\* First tokens: two hop indexes and a word
HopTokens == {<<"1">>, <<"1", "0">>, <<"x">>}

\* Tokens after the first: latencies with the unit attached (plain, with
\* the less-than marker, fractional, without a number), the wildcard, an
\* address, a name that ends in "ms", an address in brackets and in
\* parentheses, and the timeout phrase.
LineTokens ==
    {<<"5", "m", "s">>, <<"<", "1", "m", "s">>, <<"2", ".", "5", "m", "s">>, <<"m", "s">>,
     <<"*">>, <<"8", ".", "8", ".", "8", ".", "8">>, <<"a", ".", "m", "s">>,
     <<"[", "8", ".", "8", ".", "8", ".", "8", "]">>, <<"(", "8", ".", "8", ".", "8", ".", "8", ")">>,
     Append(StrRequestTimedOut, ".")}

RECURSIVE Join(_, _)
Join(tokens, sep) ==
    IF tokens = <<>> THEN <<>>
    ELSE IF Len(tokens) = 1 THEN tokens[1]
    ELSE tokens[1] \o sep \o Join(Tail(tokens), sep)

TokenLines ==
    {Join(<<h>> \o ts, <<" ">>) :
        h \in HopTokens, ts \in UNION {[1..n -> LineTokens] : n \in 0..MaxTokens}}

\* What follows the latencies in a tracert line: the address, or a name and
\* the address in brackets
AddressParts ==
    {<<<<"1", "9", "2", ".", "1", "6", "8", ".", "1", ".", "1">>>>, <<<<"d", "n", "s", ".", "g", "o", "o", "g", "l", "e">>, <<"[", "8", ".", "8", ".", "8", ".", "8", "]">>>>, <<<<"a", ".", "m", "s">>, <<"[", "8", ".", "8", ".", "8", ".", "8", "]">>>>}

\* tracert lines with the value and the unit as separate tokens, in columns:
\* "1    1 ms    2 ms    3 ms    192.168.1.1"
ColumnLines ==
    {Join(<<h, a, MS, b, MS, c, MS>> \o addr, <<" ", " ", " ", " ">>) :
        h \in {<<"1">>, <<"1", "0">>}, a \in {<<"1">>, <<"2">>}, b \in {<<"2">>, <<"3">>},
        c \in {<<"3">>, <<"1">>}, addr \in AddressParts}

ParseOptions ==
    {DefaultOptions, [DefaultOptions EXCEPT !.probes_per_hop = Some(1)]}

\* A session configured with options reads a line its child wrote
InitParse ==
    /\ os \in {"windows", "unix"}
    /\ GEO_DB = FALSE
    /\ InitSessions
    /\ input \in {Some([line |-> l, options |-> o]) :
                     l \in TokenLines \cup ColumnLines, o \in ParseOptions}
    /\ output = None

\* Line 440: the line alone is handed to the parser
ParseLine ==
    /\ IsSome(input)
    /\ output = None
    /\ output' = Some(parse_traceroute_line(os, Unwrap(input).line))
    /\ UNCHANGED <<os, GEO_DB, input, running_traces, lock, cmdVars, task,
                   abortReq, notifyVars, child, ioVars, result, events,
                   stopVars>>

NextParse == ParseLine

SpecParse == InitParse /\ [][NextParse]_vars

(***************************************************************************)
(* geo_lookup_inner applied to dotted quads                                *)
(***************************************************************************)
\* First octets: the three private prefixes, and values that share their
\* leading digits (1, 100, 17, 19) or nothing (8)
FirstOctets == {10, 172, 192, 1, 100, 17, 19, 8}

\* Second octets: both ends of 16..31, their neighbours, 168, and others
SecondOctets == {0, 8, 15, 16, 31, 32, 168, 255}

LastOctets == {1, 8}

Quad(a, b, c, d) ==
    Join(<<ToDecString(a), ToDecString(b), ToDecString(c), ToDecString(d)>>, <<".">>)

Quads ==
    {Quad(a, b, c, d) :
        a \in FirstOctets, b \in SecondOctets, c \in {8}, d \in LastOctets}

\* The resolver is handed the address of a hop, with GEO_DB loaded or not
InitGeo ==
    /\ os \in {"windows", "unix"}
    /\ GEO_DB \in BOOLEAN
    /\ InitSessions
    /\ input \in {Some(q) : q \in Quads}
    /\ output = None

\* Lines 446 and 496: geo_lookup_inner(ip.to_string()).await
GeoLookup ==
    /\ IsSome(input)
    /\ output = None
    /\ output' = Some(geo_lookup_inner(GEO_DB, Unwrap(input)))
    /\ UNCHANGED <<os, GEO_DB, input, running_traces, lock, cmdVars, task,
                   abortReq, notifyVars, child, ioVars, result, events,
                   stopVars>>

NextGeo == GeoLookup

SpecGeo == InitGeo /\ [][NextGeo]_vars

(***************************************************************************)
(* The single caller under fair scheduling                                 *)
(***************************************************************************)
\* The runtime polls a spawned or woken task; the handling of a consumed line
\* (ProcessLine, which never suspends) runs to its end; each branch of the
\* read loop's select is taken at some time if it is ready again and again
\* (the select starts at a random branch on every poll); the child closes its streams
\* and child.wait() returns; the registry mutex is granted to a task that
\* keeps asking.  Nothing obliges a caller to call stop_trace, a read to
\* fail or the 60 second timer to fire.
Fairness ==
    /\ WF_vars(\E first \in BOOLEAN, ok \in BOOLEAN : TaskStart(Caller, first, ok))
    /\ WF_vars(Wake(Caller))
    /\ []<>(task[Caller] \notin {"out_line", "err_line"})
    /\ SF_vars(StdoutEof(Caller))
    /\ SF_vars(StderrEof(Caller))
    /\ SF_vars(LoopExit(Caller))
    /\ SF_vars(\E success \in BOOLEAN : ChildExit(Caller, success))
    /\ SF_vars(Cleanup(Caller))

SpecFair == Init /\ [][Next]_vars /\ Fairness

(***************************************************************************)
(* Properties                                                              *)
(***************************************************************************)
Finished(s) == task[s] \in {"done", "dropped"}

BothClosed(s) == stdout_closed[s] /\ stderr_closed[s]

ReadLoopPlaces == {Some("loop"), Some("loop_idle"), Some("out_line"), Some("err_line")}

ErrorOf(s) == IF IsSome(result[s]) THEN Unwrap(result[s]).error ELSE "none"

IsOk(s) == IsSome(result[s]) /\ Unwrap(result[s]).ok

ValueOf(s) == Unwrap(Unwrap(result[s]).value)

CompleteEvents(evs) == SelectSeq(evs, LAMBDA e : e.type = "trace:complete")

LineHopEvents(evs) == SelectSeq(evs, LAMBDA e : e.type \in {"trace:line", "hop:update"})

\* The hops that the lines of a raw text parse to, in order, without the
\* geo annotation
RECURSIVE HopsOfLines(_)
HopsOfLines(lines) ==
    IF lines = <<>> THEN <<>>
    ELSE LET parsed == parse_traceroute_line(os, lines[1])
         IN  (IF IsSome(parsed) THEN <<Unwrap(parsed)>> ELSE <<>>)
             \o HopsOfLines(Tail(lines))

WithoutGeo(hopseq) == [i \in 1..Len(hopseq) |-> [hopseq[i] EXCEPT !.geo = None]]

\* C1: once a session's task has finished and every command has returned,
\* the registry holds no entry for that session.
C1_NoEntryLeftBehind ==
    \A s \in Sessions :
        (Finished(s) /\ cmd[s] \in {"ok", "invalid"} /\ lock = None)
            => s \notin running_traces

\* C2: when stop_trace succeeds for a session that is in its read loop with a
\* stream still open, the session does not end without child.kill() having
\* been executed (a read error that ends the session first is left aside).
C2_StopInReadLoopKillsChild ==
    \A s \in Sessions :
        (/\ stopped[s]
         /\ stop_place[s] \in ReadLoopPlaces
         /\ ~BothClosed(s)
         /\ ErrorOf(s) \notin {ErrStdout, ErrStderr}
         /\ Finished(s))
            => child[s] = "killed"

\* C3: after stop_trace(id) has returned success, no further hop:update or
\* trace:line event is emitted for session id.
C3_NoEventAfterStop ==
    [][\A s \in Sessions :
          stopped[s] => Len(LineHopEvents(events'[s])) = Len(LineHopEvents(events[s]))]_vars

\* C4: a session that ends with the 60 second timeout has had its child
\* killed before it terminates.
C4_TimeoutKillsChild ==
    \A s \in Sessions :
        (Finished(s) /\ ErrorOf(s) = ErrTimeout) => child[s] = "killed"

\* C5: a session that ended other than by cancellation has emitted exactly
\* one trace:complete event, and no session emits more than one.
C5_OneCompleteEvent ==
    \A s \in Sessions :
        /\ Len(CompleteEvents(events[s])) <= 1
        /\ (Finished(s) /\ IsSome(result[s])
                /\ ErrorOf(s) \notin {ErrCancelTask, ErrCancelExec})
               => Len(CompleteEvents(events[s])) = 1

\* C6: a session whose child exits with a non-zero status ends with an Ok
\* result and one trace:complete event that carry exactly the hops its
\* consumed lines parse to, in order, and the full raw text.
C6_NonZeroExitCompletes ==
    \A s \in Sessions :
        child[s] = "exit_failure" =>
            /\ IsOk(s)
            /\ WithoutGeo(ValueOf(s).hops) = HopsOfLines(raw_output[s])
            /\ ValueOf(s).raw_output = raw_output[s]
            /\ Len(CompleteEvents(events[s])) = 1
            /\ CompleteEvents(events[s])[1].result = ValueOf(s)

\* C6 witness: a non-zero exit after two lines that both parsed as hops.
C6_Witness ==
    \E s \in Sessions :
        /\ child[s] = "exit_failure"
        /\ Len(raw_output[s]) = 2
        /\ Len(ValueOf(s).hops) = 2

\* C7: a session cancelled in its read loop after it collected raw text ends
\* with a result that carries that raw text and the hops collected.
C7_CancelKeepsPartialResult ==
    \A s \in Sessions :
        (ErrorOf(s) = ErrCancelExec /\ raw_output[s] # <<>>) =>
            /\ IsSome(Unwrap(result[s]).value)
            /\ ValueOf(s).raw_output = raw_output[s]
            /\ ValueOf(s).hops = hops[s]

\* C8: run_trace never returns Ok(trace_id) for a session whose process
\* could not be spawned.
C8_SpawnFailureIsSynchronous ==
    \A s \in Sessions : cmd[s] = "ok" => child[s] # "spawn_failed"

C9_Rejected(s) ==
    /\ cmd[s] = "invalid"
    /\ command[s] = None
    /\ task[s] = "none"
    /\ child[s] = "none"
    /\ s \notin running_traces

\* C9: a run_trace call whose target is_valid_target rejects returns the
\* error in the same step, creates no task and no process, and leaves the
\* registry as it was; nothing is created for it later either.
C9_InvalidTargetRejected ==
    /\ [](\A s \in Sessions :
            (IsSome(target[s]) /\ ~is_valid_target(Unwrap(target[s])))
                => C9_Rejected(s))
    /\ [][\A s \in Sessions :
            (cmd[s] = "idle" /\ IsSome(target'[s])
                /\ ~is_valid_target(Unwrap(target'[s])))
                => /\ cmd'[s] = "invalid"
                   /\ running_traces' = running_traces
                   /\ task' = task
                   /\ child' = child
                   /\ command' = command]_vars

\* C9 witness: a rejected call while another session is in the registry.
C9_Witness ==
    \E s \in Sessions, u \in Sessions :
        /\ cmd[s] = "invalid"
        /\ Unwrap(target[s]) = TargetInjection
        /\ u \in running_traces

\* The characters the validator is specified never to let through.
ForbiddenChars == {" ", "&", "|", ";", Backtick, "$", "(", ")", "<", ">", "\"", "'"}

\* C10: every string accepted by is_valid_target contains none of the
\* forbidden characters.
C10_AcceptedHasNoForbiddenChar ==
    output = Some(TRUE) =>
        \A i \in 1..Len(Unwrap(input)) : Unwrap(input)[i] \notin ForbiddenChars

\* C10 witness: an accepted three-character target.
C10_Witness ==
    /\ output = Some(TRUE)
    /\ Len(Unwrap(input)) = 3

\* The shape of a name as the validator is specified to accept it.
C11_NameShape(t) ==
    /\ \A i \in 1..Len(t) :
          t[i] \in Digits \cup LowerLetters \cup UpperLetters \cup {".", "-", "_"}
    /\ t[1] \in Digits \cup LowerLetters \cup UpperLetters
    /\ t[Len(t)] \in Digits \cup LowerLetters \cup UpperLetters
    /\ \E i \in 1..Len(t) : t[i] = "."
    /\ ~\E i \in 1..(Len(t) - 1) : t[i] = "." /\ t[i + 1] = "."

\* C11: is_valid_target accepts a string exactly when it is non-empty, at
\* most 255 characters long, and either parses as an IP address or has the
\* shape of a name (letters, digits, dot, hyphen, underscore only; first and
\* last character alphanumeric; a dot; no "..").
C11_AcceptsExactlyIpOrName ==
    IsSome(output) =>
        LET t == Unwrap(input)
        IN  Unwrap(output) <=>
                /\ t # <<>>
                /\ Len(t) <= 255
                /\ ParsesIpAddr(t) \/ C11_NameShape(t)

\* C11 witness: a name of exactly 255 characters is accepted.
C11_Witness ==
    /\ output = Some(TRUE)
    /\ Len(Unwrap(input)) = 255
    /\ ~ParsesIpAddr(Unwrap(input))

C12_HasArg(args, flag) == \E i \in 1..Len(args) : args[i] = flag

\* C12: unless resolve_dns is true, the argument list holds the DNS-skip
\* flag: -n on the Unix variant, -d on the Windows variant.
C12_DnsSkipFlagByDefault ==
    IsSome(output) =>
        LET args == Unwrap(output).args
            flag == IF os = "windows" THEN <<"-", "d">> ELSE <<"-", "n">>
        IN  Unwrap(input).options.resolve_dns # Some(TRUE) => C12_HasArg(args, flag)

\* The least whole number c with 1000 * c >= w
C13_CeilSec(w) == CHOOSE c \in 0..(w \div 1000 + 1) :
                      1000 * c >= w /\ (c > 0 => 1000 * (c - 1) < w)

\* C13: on the Unix variant a given timeout_ms yields exactly one "-w"
\* followed by S in decimal, S the whole seconds timeout_ms rounds up to and
\* at least 1; no timeout_ms yields no "-w"; the target is the last argument.
\* (2^53 ms is 9007199254740 s and 992 ms.)
C13_UnixTimeoutSeconds ==
    (IsSome(output) /\ os = "unix") =>
        LET args == Unwrap(output).args
            timeout_ms == Unwrap(input).options.timeout_ms
            at == {i \in 1..Len(args) : args[i] = <<"-", "w">>}
        IN  /\ args # <<>>
            /\ args[Len(args)] = Unwrap(input).target
            /\ ~IsSome(timeout_ms) => at = {}
            /\ IsSome(timeout_ms) =>
                  /\ Cardinality(at) = 1
                  /\ \A i \in at :
                        /\ i + 1 < Len(args)
                        /\ LET ms == Unwrap(timeout_ms)
                               S == IF ms.hi = 0
                                    THEN (IF ms.lo = 0 THEN 1 ELSE C13_CeilSec(ms.lo))
                                    ELSE C13_CeilSec(992 + ms.lo)
                           IN  args[i + 1] =
                                   IF ms.hi = 0 THEN ToDecString(S)
                                   ELSE AddDec(<<"9", "0", "0", "7", "1", "9", "9",
                                                 "2", "5", "4", "7", "4", "0">>, S)

\* C14: on the Unix variant a session reports the spawn failure only after
\* the fallback binary was tried: the command whose launch failed last is
\* tracepath, not the primary traceroute.
C14_SpawnFailedOnlyAfterFallback ==
    \A s \in Sessions :
        (os = "unix" /\ child[s] = "spawn_failed")
            => Unwrap(command[s]).cmd = "tracepath"

\* The whitespace-delimited tokens of the line that was parsed
C15_Tokens == SplitWhitespace(Unwrap(input).line)

\* The first token is a hop index
C15_HasHopIndex == C15_Tokens # <<>> /\ C15_Tokens[1] # <<>> /\ AllDigits(C15_Tokens[1])

\* The record the parser returned, where it returned one
C15_Record == Unwrap(Unwrap(output))

C15_IsQuad(tok) == ParsesIpv4(tok)

\* A line `n  a ms  b ms  c ms  ip`
C15_IsColumnLine ==
    LET tok == C15_Tokens
    IN  /\ Len(tok) = 8
        /\ C15_HasHopIndex
        /\ \A i \in {2, 4, 6} : tok[i] # <<>> /\ AllDigits(tok[i])
        /\ \A i \in {3, 5, 7} : tok[i] = <<"m", "s">>
        /\ C15_IsQuad(tok[8])

\* C15: a line `n  a ms  b ms  c ms  ip` parses to a record with hop n,
\* address ip, the samples [a, b, c], mean (a + b + c) / 3 and status
\* success.
C15_ColumnLineParses ==
    (IsSome(output) /\ C15_IsColumnLine) =>
        LET tok == C15_Tokens
            a == DecValue(tok[2])
            b == DecValue(tok[4])
            c == DecValue(tok[6])
        IN  /\ IsSome(Unwrap(output))
            /\ C15_Record.hop = DecValue(tok[1])
            /\ C15_Record.ip = Some(tok[8])
            /\ C15_Record.status = "success"
            /\ Len(C15_Record.latencies) = 3
            /\ \A i \in 1..3 : IsSome(C15_Record.latencies[i])
            /\ Unwrap(C15_Record.latencies[1]).num = a * Unwrap(C15_Record.latencies[1]).den
            /\ Unwrap(C15_Record.latencies[2]).num = b * Unwrap(C15_Record.latencies[2]).den
            /\ Unwrap(C15_Record.latencies[3]).num = c * Unwrap(C15_Record.latencies[3]).den
            /\ IsSome(C15_Record.avg_latency)
            /\ 3 * Unwrap(C15_Record.avg_latency).num
                   = (a + b + c) * Unwrap(C15_Record.avg_latency).den

C16_HasTimeoutPhrase ==
    \E k \in 0..(Len(Unwrap(input).line) - 17) :
        SubSeq(Unwrap(input).line, k + 1, k + 17)
            = <<"R", "e", "q", "u", "e", "s", "t", " ", "t", "i", "m", "e", "d",
                " ", "o", "u", "t">>

\* C16: on both variants a line whose first token is the integer n and that
\* contains "Request timed out" parses to a record with hop n, status
\* timeout, exactly three absent samples, no mean, no hostname, no address.
C16_TimeoutLineParses ==
    (IsSome(output) /\ C15_HasHopIndex /\ C16_HasTimeoutPhrase) =>
        /\ IsSome(Unwrap(output))
        /\ C15_Record.hop = DecValue(C15_Tokens[1])
        /\ C15_Record.status = "timeout"
        /\ C15_Record.latencies = <<None, None, None>>
        /\ C15_Record.avg_latency = None
        /\ C15_Record.host = None
        /\ C15_Record.ip = None

\* C16 witness: "10 * * Request timed out." parsed on the Unix variant.
C16_Witness ==
    /\ IsSome(output)
    /\ os = "unix"
    /\ C16_HasTimeoutPhrase
    /\ C15_Tokens[1] = <<"1", "0">>
    /\ Len(C15_Tokens) = 6
    /\ C15_Tokens[2] = <<"*">>
    /\ IsSome(Unwrap(output))
    /\ C15_Record.hop = 10

\* A host name: it starts with a letter and has a dot
C17_IsName(tok) ==
    /\ tok # <<>>
    /\ tok[1] \in LowerLetters \cup UpperLetters
    /\ \E i \in 1..Len(tok) : tok[i] = "."

\* A line `n  a ms  b ms  c ms  name [ip]`
C17_IsNameAddressLine ==
    LET tok == C15_Tokens
    IN  /\ Len(tok) = 9
        /\ C15_HasHopIndex
        /\ \A i \in {2, 4, 6} : tok[i] # <<>> /\ AllDigits(tok[i])
        /\ \A i \in {3, 5, 7} : tok[i] = <<"m", "s">>
        /\ C17_IsName(tok[8])
        /\ Len(tok[9]) > 2 /\ tok[9][1] = "[" /\ tok[9][Len(tok[9])] = "]"
        /\ C15_IsQuad(SubSeq(tok[9], 2, Len(tok[9]) - 1))

\* C17: on the Windows variant, whose utility writes this form, a line
\* whose address portion is `name [ip]` parses to a record with hostname
\* name and address ip.
C17_NameAndBracketedAddress ==
    (IsSome(output) /\ os = "windows" /\ C17_IsNameAddressLine) =>
        /\ IsSome(Unwrap(output))
        /\ C15_Record.host = Some(C15_Tokens[8])
        /\ C15_Record.ip = Some(SubSeq(C15_Tokens[9], 2, Len(C15_Tokens[9]) - 1))

\* C18: every record returned has status success exactly when its latencies
\* hold a present sample, and a mean exactly when its status is success.
C18_StatusMatchesSamples ==
    (IsSome(output) /\ IsSome(Unwrap(output))) =>
        /\ C15_Record.status = "success"
               <=> \E i \in 1..Len(C15_Record.latencies) : IsSome(C15_Record.latencies[i])
        /\ IsSome(C15_Record.avg_latency) <=> C15_Record.status = "success"

\* A token with the duration suffix whose numeric part is not a number
C19_IsMalformedLatency(tok) ==
    /\ Len(tok) >= 2
    /\ tok[Len(tok) - 1] = "m" /\ tok[Len(tok)] = "s"
    /\ ~IsSome(ParseF64(SubSeq(tok, 1, Len(tok) - 2)))

\* C19: on both variants a line whose first token is a hop index and that
\* holds a malformed latency token still yields a record.
C19_MalformedLatencyKeepsLine ==
    (/\ IsSome(output)
     /\ C15_HasHopIndex
     /\ \E i \in 2..Len(C15_Tokens) : C19_IsMalformedLatency(C15_Tokens[i]))
        => IsSome(Unwrap(output))

\* C20: the record of a timeout-marker line has as many samples as the
\* session's probes_per_hop, and three when that option is absent.
C20_TimeoutSamplesFollowProbes ==
    (IsSome(output) /\ C16_HasTimeoutPhrase /\ IsSome(Unwrap(output))) =>
        LET probes == Unwrap(input).options.probes_per_hop
        IN  Len(C15_Record.latencies) = IF IsSome(probes) THEN Unwrap(probes) ELSE 3

\* The first two octets of a dotted quad, as numbers
C21_Octet(ip, i) == DecValue(Split(ip, ".")[i])

\* The address lies in 10.0.0.0/8, 192.168.0.0/16 or 172.16.0.0/12
C21_InPrivateRange(ip) ==
    \/ C21_Octet(ip, 1) = 10
    \/ C21_Octet(ip, 1) = 192 /\ C21_Octet(ip, 2) = 168
    \/ C21_Octet(ip, 1) = 172 /\ C21_Octet(ip, 2) \in 16..31

\* C21: for a dotted quad, geo_lookup_inner returns the Private/Internal
\* sentinel (city "Private/Internal", nothing else) exactly when the address
\* lies in 10.0.0.0/8, 192.168.0.0/16 or 172.16.0.0/12, and for such an
\* address the result is the same whether GEO_DB is loaded or not.
C21_PrivateRangeShortCircuits ==
    IsSome(output) /\ ParsesIpv4(Unwrap(input)) =>
        /\ (Unwrap(output).ok /\ Unwrap(output).value = PrivateSentinel)
              <=> C21_InPrivateRange(Unwrap(input))
        /\ C21_InPrivateRange(Unwrap(input)) =>
              /\ geo_lookup_inner(TRUE, Unwrap(input)) = Unwrap(output)
              /\ geo_lookup_inner(FALSE, Unwrap(input)) = Unwrap(output)

\* A 172.16.0.0/12 address was resolved with no database loaded
C21_Witness ==
    /\ IsSome(output)
    /\ ~GEO_DB
    /\ C21_Octet(Unwrap(input), 1) = 172
    /\ C21_Octet(Unwrap(input), 2) = 31
    /\ Unwrap(output).ok
    /\ Unwrap(output).value.city = Some("Private/Internal")

\* C22: every hop that has an address carries a geo annotation (a lookup
\* result or one of the two sentinels), whatever the state of the database.
C22_HopWithAddressHasGeo ==
    \A s \in Sessions : \A i \in 1..Len(hops[s]) :
        IsSome(hops[s][i].ip) => IsSome(hops[s][i].geo)

C23_EventsOfType(evs, type) == SelectSeq(evs, LAMBDA e : e.type = type)

\* C23: every line consumed from stdout or stderr has produced exactly one
\* trace:line event (raw_output holds one entry per consumed line).
C23_OneLineEventPerLine ==
    \A s \in Sessions :
        Len(C23_EventsOfType(events[s], "trace:line")) = Len(raw_output[s])

\* The events the consumed lines call for, in the order of consumption: a
\* stdout line its trace:line event (numbered k + 1 after k stdout lines),
\* then the hop:update of a line that parses; the hop of the line still
\* being processed is not due yet.
RECURSIVE C24_Expected(_, _, _)
C24_Expected(lines, k, pending) ==
    IF lines = <<>> THEN <<>>
    ELSE LET line == Head(lines)
             out == line \in StdoutLines
             parsed == parse_traceroute_line(os, line)
             lineEv == IF out
                       THEN <<[type |-> "trace:line", line_no |-> k + 1,
                               line |-> line]>>
                       ELSE <<>>
             hopEv == IF IsSome(parsed) /\ ~(pending /\ Len(lines) = 1)
                      THEN <<[type |-> "hop:update",
                              hop_data |-> EnrichHop(GEO_DB, Unwrap(parsed))]>>
                      ELSE <<>>
         IN  lineEv \o hopEv
                \o C24_Expected(Tail(lines), IF out THEN k + 1 ELSE k, pending)

\* C24: within a session the trace:line and hop:update events appear in the
\* order their lines were consumed, and the trace:line events carry
\* line_no 1, 2, 3, ... with no gap and no repeat.
C24_EventsInConsumptionOrder ==
    \A s \in Sessions :
        /\ SelectSeq(events[s], LAMBDA e : e.type # "trace:complete")
              = C24_Expected(raw_output[s], 0, IsSome(cur[s]))
        /\ LET lineEvs == C23_EventsOfType(events[s], "trace:line")
           IN  \A i \in 1..Len(lineEvs) : lineEvs[i].line_no = i

\* Two stdout lines were consumed and processed, and a hop was emitted
C24_Witness ==
    /\ Len(C23_EventsOfType(events[Caller], "trace:line")) = 2
    /\ Len(C23_EventsOfType(events[Caller], "hop:update")) >= 1
    /\ cur[Caller] = None

\* The task is at timeout(child.wait()) or went through it
C25_ReachedWait(s) ==
    \/ task[s] \in {"wait", "wait_idle"}
    \/ child[s] \in {"exit_success", "exit_failure"}
    \/ IsSome(result[s]) /\ ErrorOf(s) \in {ErrTimeout, ErrWait}

\* C25: the session waits for the child's exit only after both streams have
\* reported end-of-stream; with one stream closed the task is still in the
\* read loop and a line of the other stream can be consumed.
C25_WaitOnlyAfterBothEof ==
    /\ \A s \in Sessions :
          C25_ReachedWait(s) => stdout_closed[s] /\ stderr_closed[s]
    /\ task[Caller] = "loop" /\ TotalLines < MaxLines =>
          /\ stdout_closed[Caller] /\ ~stderr_closed[Caller] =>
                ENABLED (\E line \in StderrLines : ReadStderrLine(Caller, line))
          /\ stderr_closed[Caller] /\ ~stdout_closed[Caller] =>
                ENABLED (\E line \in StdoutLines : ReadStdoutLine(Caller, line))

\* Stdout has reported end-of-stream and a stderr line is being handled
C25_Witness ==
    /\ task[Caller] = "err_line"
    /\ stdout_closed[Caller]
    /\ ~stderr_closed[Caller]

\* A stop_trace(id) call finds the entry in this step
C26_Found(id) == lock = None /\ lock' = Some(id)

\* A stop_trace(id) call returns Ok(()) in this step
C26_ReturnsOk(id) == ~stopped[id] /\ stopped'[id]

\* C26: stop_trace(id) returns Ok only for an id it found in the registry
\* and removed; for an id that is not there the only outcome is NotFound,
\* which changes nothing; and once stop_trace(id) has succeeded the id is
\* never in the registry again, so a second stop_trace(id) is NotFound.
C26_StopTraceIdempotent ==
    /\ [](\A id \in Sessions :
            /\ stopped[id] \/ lock = Some(id) => id \notin running_traces
            /\ lock = None /\ id \notin running_traces =>
                  /\ ENABLED StopTraceNotFound(id)
                  /\ ~ENABLED StopTraceRemove(id)
            /\ lock = None /\ id \in running_traces =>
                  /\ ENABLED StopTraceRemove(id)
                  /\ ~ENABLED StopTraceNotFound(id))
    /\ [][\A id \in Sessions :
            /\ C26_Found(id) =>
                  id \in running_traces /\ running_traces' = running_traces \ {id}
            /\ C26_ReturnsOk(id) => lock = Some(id) /\ lock' = None
            /\ stopped[id] => stopped'[id]]_vars

\* stop_trace("t1") has returned Ok(()) while the session of "t2" runs; a
\* second stop_trace("t1") can only take the NotFound path
C26_Witness ==
    /\ stopped["t1"]
    /\ lock = None
    /\ "t2" \in running_traces
    /\ ENABLED StopTraceNotFound("t1")

\* The terminal outcomes a session has been given: completed by its
\* trace:complete event, cancelled by stop_trace returning Ok(()) or by the
\* task's cancel result, timed out or failed by the task's error.
C27_Outcomes(s) ==
    {o \in {"completed", "cancelled", "timed_out", "failed"} :
        \/ o = "completed" /\ CompleteEvents(events[s]) # <<>>
        \/ o = "cancelled" /\ (stopped[s] \/ ErrorOf(s) \in {ErrCancelTask, ErrCancelExec})
        \/ o = "timed_out" /\ ErrorOf(s) = ErrTimeout
        \/ o = "failed" /\ ErrorOf(s) \in {ErrSpawn, ErrStdout, ErrStderr, ErrWait}}

\* C27: a session reaches at most one terminal outcome.
C27_AtMostOneOutcome ==
    \A s \in Sessions : Cardinality(C27_Outcomes(s)) <= 1

\* What the caller of run_trace can observe of session s other than its
\* lines and hops: an Err returned by run_trace, or an event that is neither
\* trace:line nor hop:update
C28_ToldCaller(s) ==
    \/ cmd[s] = "invalid"
    \/ Len(events[s]) > Len(LineHopEvents(events[s]))

\* C28: a session whose task ended on a stdout or stderr read error has
\* surfaced the failure to its caller.
C28_StreamErrorSurfaced ==
    \A s \in Sessions :
        Finished(s) /\ ErrorOf(s) \in {ErrStdout, ErrStderr} => C28_ToldCaller(s)

\* C29: no stop_trace(id) call finds the entry of (and so returns Ok(())
\* for) a session that has already emitted trace:complete.
C29_NoStopAfterComplete ==
    [][\A id \in Sessions :
          C26_Found(id) => CompleteEvents(events[id]) = <<>>]_vars

\* The session's task has ended after emitting trace:complete
C30_Completed(s) ==
    /\ task[s] = "done"
    /\ IsOk(s)
    /\ CompleteEvents(events[s]) # <<>>

\* What the claim sets aside: a stop_trace call for the session, a child
\* that could not be spawned, a read error, a child.wait() error or the
\* 60 second timeout
C30_SetAside(s) ==
    \/ lock = Some(s)
    \/ stopped[s]
    \/ IsSome(result[s]) /\ ~IsOk(s)

\* C30: a spawned session whose child closes both streams and exits within
\* the bound, and which nobody cancels, eventually leaves the read loop,
\* emits trace:complete, removes its id and ends.
C30_EventuallyCompletes ==
    (task[Caller] = "ready") ~> (C30_Completed(Caller) \/ C30_SetAside(Caller))

\* The session consumed lines from both streams, completed and removed its
\* entry, with no stop_trace call
C30_Witness ==
    /\ C30_Completed(Caller)
    /\ ~C30_SetAside(Caller)
    /\ Len(raw_output[Caller]) = MaxLines
    /\ cmd[Caller] = "ok"
    /\ Caller \notin running_traces

\* C31: a session whose task ended on a stdout or stderr read error has a
\* child that was killed or has exited.
C31_StreamErrorStopsChild ==
    \A s \in Sessions :
        Finished(s) /\ ErrorOf(s) \in {ErrStdout, ErrStderr} =>
            child[s] \in {"killed", "exit_success", "exit_failure"}

\* The hop_data of the hop:update events, in the order of emission
C32_HopsEmitted(evs) ==
    LET hopEvs == C23_EventsOfType(evs, "hop:update")
    IN  [i \in 1..Len(hopEvs) |-> hopEvs[i].hop_data]

\* The lines of the trace:line events, in the order of emission
C32_LinesEmitted(evs) ==
    LET lineEvs == C23_EventsOfType(evs, "trace:line")
    IN  [i \in 1..Len(lineEvs) |-> lineEvs[i].line]

\* A line is taken from a stream in this step
C32_Consumes(s) == IsSome(cur'[s]) /\ cur'[s] # cur[s]

\* C32: the hops of a session's trace:complete event are the hop_data of its
\* hop:update events, in order and with their geo annotation, and are what
\* the lines of its raw_output parse to; its raw_output holds every consumed
\* line, each once, in the order of consumption (the stdout lines among them
\* are the lines of the trace:line events).
C32_ResultMatchesStream ==
    /\ [](\A s \in Sessions :
            LET done == CompleteEvents(events[s])
            IN  \A i \in 1..Len(done) :
                    /\ done[i].result.hops = C32_HopsEmitted(events[s])
                    /\ WithoutGeo(done[i].result.hops)
                          = HopsOfLines(done[i].result.raw_output)
                    /\ done[i].result.raw_output = raw_output[s]
                    /\ SelectSeq(done[i].result.raw_output,
                                 LAMBDA l : l \in StdoutLines)
                          = C32_LinesEmitted(events[s]))
    /\ [][\A s \in Sessions :
            IF C32_Consumes(s)
            THEN raw_output'[s] = Append(raw_output[s], Unwrap(cur'[s]))
            ELSE raw_output'[s] = raw_output[s]]_vars

\* A completion event carries two lines, one of each stream, and the two
\* hops they parse to, the second annotated as private
C32_Witness ==
    LET done == CompleteEvents(events[Caller])
    IN  /\ Len(done) = 1
        /\ done[1].result.raw_output = <<LineHop1, LineHop2>>
        /\ Len(done[1].result.hops) = 2
        /\ IsSome(done[1].result.hops[2].geo)
        /\ IsSome(done[1].result.hops[1].geo)

\* Four '.'-separated decimal numbers, each 0..255
C33_IsDottedQuad(tok) ==
    LET parts == Split(tok, ".")
    IN  /\ Len(parts) = 4
        /\ \A i \in 1..4 :
              /\ Len(parts[i]) \in 1..3
              /\ AllDigits(parts[i])
              /\ DecValue(parts[i]) <= 255

\* C33: on both platforms the address of a record that the parser returns
\* is a well-formed dotted quad.
C33_AddressIsDottedQuad ==
    (IsSome(output) /\ IsSome(Unwrap(output)) /\ IsSome(C15_Record.ip)) =>
        C33_IsDottedQuad(Unwrap(C15_Record.ip))

\* A stop_trace(id) call takes a step: it finds the entry, or it aborts the
\* task and returns
C34_StopStep(id) ==
    \/ lock = None /\ lock' = Some(id)
    \/ lock = Some(id) /\ lock' = None

\* The task of session s removes its id and returns in this step
C34_SelfRemoval(s) == task[s] = "cleanup" /\ task'[s] = "done"

\* Session s is left as it was: its entry, its notification, its task's
\* abort flag and place, its child, its streams and its events
C34_Untouched(s) ==
    /\ (s \in running_traces') <=> (s \in running_traces)
    /\ notif'[s] = notif[s]
    /\ waiters'[s] = waiters[s]
    /\ abortReq'[s] = abortReq[s]
    /\ task'[s] = task[s]
    /\ child'[s] = child[s]
    /\ result'[s] = result[s]
    /\ events'[s] = events[s]
    /\ stopped'[s] = stopped[s]

\* C34: a step of stop_trace(id) leaves every other session untouched, and
\* a task's self-removal takes exactly its own id out of the registry.
C34_StopTouchesOnlyItsSession ==
    [][\A id \in Sessions :
          /\ C34_StopStep(id) => \A s \in Sessions \ {id} : C34_Untouched(s)
          /\ C34_SelfRemoval(id) =>
                /\ running_traces' = running_traces \ {id}
                /\ \A s \in Sessions \ {id} : C34_Untouched(s)]_vars

\* stop_trace("t1") has returned Ok(()) while the session of "t2" is
\* registered with its child running, not notified and not aborted
C34_Witness ==
    /\ stopped["t1"]
    /\ task["t1"] \in {"done", "dropped"}
    /\ "t2" \in running_traces
    /\ child["t2"] = "running"
    /\ notif["t2"] = "none"
    /\ ~abortReq["t2"]

=============================================================================
